---- MODULE Spec2Model ----
(***************************************************************************)
(* pharmakin: parameters, formulas and the Formulary that registers them   *)
(* and determines a parameter from known ones.                             *)
(*                                                                         *)
(* Numbers are exact: a magnitude is s * 10^e * ln(2)^l, which is closed   *)
(* under the products and quotients the formulas of the package use.       *)
(* A pint unit is its dimension (mass, volume, time exponents) and the     *)
(* power of ten that relates it to the default units of Dim (g, ml, hour). *)
(***************************************************************************)
EXTENDS Integers, Sequences, FiniteSets, TLC

\* ---------------------------------------------------------------- bounds
MaxFormulae == 2
MaxBatch == 2
MaxKnown == 3
MaxExp == 2

\* ------------------------------------------------------------ magnitudes
Mag(s, e, l) == [s |-> s, e |-> e, l |-> l]
Zero == Mag(0, 0, 0)
One == Mag(1, 0, 0)
Ten == Mag(1, 1, 0)
MinusOne == Mag(-1, 0, 0)
\* sympy.log(2)
Log2 == Mag(1, 0, 1)

\* 1/x for x # 0
Recip(x) == Mag(x.s, 0 - x.e, 0 - x.l)

\* x * 10^k
Scale(x, k) == IF x.s = 0 THEN Zero ELSE Mag(x.s, x.e + k, x.l)

\* ln|x| in millionths: ln 10 = 2.302585, ln ln 2 = -0.366513
Weight(x) == 2302585 * x.e - 366513 * x.l

\* x <= y on floats
Leq(x, y) ==
    IF x.s # y.s THEN x.s < y.s
    ELSE IF x.s = 0 THEN TRUE
    ELSE IF x.s = 1 THEN Weight(x) <= Weight(y)
    ELSE Weight(y) <= Weight(x)

\* ----------------------------------------------------------------- units
Dimension(m, v, t) == <<m, v, t>>
Dimensionless == Dimension(0, 0, 0)
DimMul(a, b) == <<a[1] + b[1], a[2] + b[2], a[3] + b[3]>>
DimPow(a, n) == <<a[1] * n, a[2] * n, a[3] * n>>

\* Dim.MASS, Dim.VOLUME, Dim.TIME
MASS == Dimension(1, 0, 0)
VOLUME == Dimension(0, 1, 0)
TIME == Dimension(0, 0, 1)

\* a float, or a pint.Quantity of magnitude m in the unit (d, k)
Float(m) == [m |-> m, q |-> FALSE, d |-> Dimensionless, k |-> 0]
Q_(m, d, k) == [m |-> m, q |-> TRUE, d |-> d, k |-> k]

has_units(value) == value.q /\ value.d # Dimensionless

\* ------------------------------------------------------------ parameters
Names == {"dose", "auc", "clearance", "volume_of_distribution", "half_life"}

\* float("inf") as an upper bound
Inf == [inf |-> TRUE, m |-> Zero]
Finite(m) == [inf |-> FALSE, m |-> m]

ParameterClass(module, name, unit) ==
    [module |-> module, name |-> name, unit |-> unit,
     lower |-> Zero, upper |-> Inf]

dose == ParameterClass("pharmakin.utils.parameters", "dose", MASS)
clearance ==
    ParameterClass("pharmakin.utils.parameters", "clearance",
                   DimMul(VOLUME, DimPow(TIME, -1)))
auc ==
    ParameterClass("pharmakin.utils.parameters", "auc",
                   DimMul(DimMul(MASS, DimPow(VOLUME, -1)), TIME))
\* the class of the same name that pharmakin/parameters.py defines
dose_legacy == ParameterClass("pharmakin.parameters", "dose", MASS)
volume_of_distribution ==
    ParameterClass("pharmakin.parameters", "volume_of_distribution", VOLUME)
half_life == ParameterClass("pharmakin.parameters", "half_life", TIME)

\* the classes that pharmakin/utils/parameters.py and pharmakin/parameters.py
\* define: what register_parameters is called with
ParameterPool == {dose, clearance, auc, dose_legacy}

\* parameters.get_all_parameters(), as the kinetics modules use them
ALL_PARAMETERS == <<dose, clearance, auc, volume_of_distribution, half_life>>

\* -------------------------------------------------------------- formulas
\* A formula's sympy right-hand side is a monomial c * prod(input^exp).
MakeFormula(func, result, inputs, c, exps) ==
    [func |-> func, result_class |-> result, inputs |-> inputs,
     c |-> c, exps |-> exps]

clearence_from_dose_auc ==
    MakeFormula("clearence_from_dose_auc", "clearance",
                <<"dose", "auc">>, One, <<1, -1>>)
t_half ==
    MakeFormula("t_half", "half_life",
                <<"volume_of_distribution", "clearance">>, Log2, <<1, -1>>)
\* further formulas a caller may define with Parameter.formula
clearance_tenfold ==
    MakeFormula("clearance_tenfold", "clearance",
                <<"dose", "auc">>, Ten, <<1, -1>>)
clearance_from_dose ==
    MakeFormula("clearance_from_dose", "clearance", <<"dose">>, Ten, <<1>>)

\* a formula in which an input is squared
clearance_from_dose_squared ==
    MakeFormula("clearance_from_dose_squared", "clearance", <<"dose">>,
                One, <<2>>)

FormulaPool ==
    {clearence_from_dose_auc, t_half, clearance_tenfold, clearance_from_dose,
     clearance_from_dose_squared}

Range(s) == {s[i] : i \in DOMAIN s}

\* the exponent of a name in the right-hand side
ExpOf(formula, name) ==
    IF \E i \in DOMAIN formula.inputs : formula.inputs[i] = name
    THEN formula.exps[CHOOSE i \in DOMAIN formula.inputs : formula.inputs[i] = name]
    ELSE 0

\* Formula.eq: Equality(Symbol(result), rhs); x maps each symbol of the rhs
\* to its exponent
Eq(formula) ==
    [lhs |-> formula.result_class,
     c |-> formula.c,
     x |-> [n \in Range(formula.inputs) |-> ExpOf(formula, n)]]

\* eq.atoms(sympy.Symbol)
Atoms(eq) == {eq.lhs} \cup {n \in DOMAIN eq.x : eq.x[n] # 0}

\* sympy.Symbol(k): symbols of the same name are the same symbol
Symbol(k) == k

\* ------------------------------------------------------------- the state
VARIABLES
    parameters,                     \* Formulary.parameters: name -> class
    symbols,                        \* Formulary.symbols: name -> Symbol
    formulae,                       \* Formulary.formulae
    equations,                      \* Formulary.equations
    formulas_for_parameter,         \* defaultdict(list)
    formulas_containing_parameter,  \* defaultdict(list)
    last,                           \* the most recent call and its outcome
    PARAMETER_REGISTRY              \* pharmakin.parameters: a Registry

vars ==
    <<parameters, symbols, formulae, equations, formulas_for_parameter,
      formulas_containing_parameter, last, PARAMETER_REGISTRY>>

registry ==
    <<parameters, symbols, formulae, equations, formulas_for_parameter,
      formulas_containing_parameter>>

NoValue == Float(Zero)
NoKnown == [n \in {} |-> NoValue]

Call(op, batch, target, known, err, value, ncand) ==
    [op |-> op, batch |-> batch, target |-> target, known |-> known,
     err |-> err, value |-> value, ncand |-> ncand]

NoCall == Call("init", <<>>, "", NoKnown, "", NoValue, 0)

\* ---------------------------------------------------------- registration
\* Formulary._parkey
parkey(param) == param.name

\* a registry that never finds a parameter registered
is_registered_never(pars, param) == FALSE

\* Formulary._is_registered, on a dict of parameters
is_registered(pars, param) == parkey(param) \in DOMAIN pars

Put(f, k, v) == [x \in DOMAIN f \cup {k} |-> IF x = k THEN v ELSE f[x]]

AlreadyRegistered == "RuntimeError: already registered"
NotRegistered == "RuntimeError: not registered"

\* Formulary.register_parameters: the loop over params, from the maps
\* (pars, syms); stops at the first parameter that is already registered
RECURSIVE register_parameters_loop(_, _, _)
register_parameters_loop(pars, syms, params) ==
    IF params = <<>> THEN [parameters |-> pars, symbols |-> syms, err |-> ""]
    ELSE IF is_registered(pars, Head(params))
    THEN [parameters |-> pars, symbols |-> syms, err |-> AlreadyRegistered]
    ELSE register_parameters_loop(
            Put(pars, parkey(Head(params)), Head(params)),
            Put(syms, parkey(Head(params)), Symbol(parkey(Head(params)))),
            Tail(params))

\* a check that reports no name as missing
ensure_registered_none(pars, names) == {}

\* Formulary.ensure_registered: the names that were not registered
ensure_registered_failed(pars, names) == {k \in names : k \notin DOMAIN pars}

\* list(formula.inputs) + [formula_for]
VarsOf(formula) == Append(formula.inputs, formula.result_class)

\* an index that lists a formula under its result only
AppendAll_result(index, names, formula) ==
    [index EXCEPT ![formula.result_class] = Append(@, formula)]

RECURSIVE AppendAll(_, _, _)
AppendAll(index, names, formula) ==
    IF names = <<>> THEN index
    ELSE AppendAll(
            [index EXCEPT ![Head(names)] = Append(@, formula)],
            Tail(names), formula)

\* Formulary.register_formulas: the loop over formulas
RECURSIVE register_formulas_loop(_, _, _, _, _, _)
register_formulas_loop(pars, fs, eqs, ffor, fcont, formulas) ==
    IF formulas = <<>>
    THEN [formulae |-> fs, equations |-> eqs, ffor |-> ffor, fcont |-> fcont,
          err |-> ""]
    ELSE
        LET formula == Head(formulas)
            fs1 == Append(fs, formula)
            eqs1 == Append(eqs, Eq(formula))
        IN  IF ensure_registered_failed(pars, Range(VarsOf(formula))) # {}
            THEN [formulae |-> fs1, equations |-> eqs1, ffor |-> ffor,
                  fcont |-> fcont, err |-> NotRegistered]
            ELSE register_formulas_loop(
                    pars, fs1, eqs1,
                    [ffor EXCEPT ![formula.result_class] = Append(@, formula)],
                    AppendAll(fcont, VarsOf(formula), formula),
                    Tail(formulas))

SeqsUpTo(S, n) == UNION {[1..k -> S] : k \in 1..n}

ParameterBatches == SeqsUpTo(ParameterPool, MaxBatch)
FormulaBatches == SeqsUpTo(FormulaPool, MaxBatch)

EmptyIndex == [n \in Names |-> <<>>]
NoParameters == [n \in {} |-> dose]
NoSymbols == [n \in {} |-> ""]

\* the caller is between two calls
Idle == last = NoCall

\* Formulary.__init__ with no parameters and no formulas
Init ==
    /\ parameters = NoParameters
    /\ symbols = NoSymbols
    /\ formulae = <<>>
    /\ equations = <<>>
    /\ formulas_for_parameter = EmptyIndex
    /\ formulas_containing_parameter = EmptyIndex
    /\ last = NoCall
    /\ PARAMETER_REGISTRY = NoParameters

RegisterParameters(params) ==
    LET r == register_parameters_loop(parameters, symbols, params)
    IN  /\ Idle
        /\ parameters' = r.parameters
        /\ symbols' = r.symbols
        /\ last' = Call("register_parameters", params, "", NoKnown, r.err,
                        NoValue, 0)
        /\ UNCHANGED <<formulae, equations, formulas_for_parameter,
                       formulas_containing_parameter, PARAMETER_REGISTRY>>

RegisterFormulas(formulas) ==
    LET r == register_formulas_loop(parameters, formulae, equations,
                                    formulas_for_parameter,
                                    formulas_containing_parameter, formulas)
    IN  /\ Idle
        /\ Len(formulae) + Len(formulas) <= MaxFormulae
        /\ formulae' = r.formulae
        /\ equations' = r.equations
        /\ formulas_for_parameter' = r.ffor
        /\ formulas_containing_parameter' = r.fcont
        /\ last' = Call("register_formulas", formulas, "", NoKnown, r.err,
                        NoValue, 0)
        /\ UNCHANGED <<parameters, symbols, PARAMETER_REGISTRY>>

\* the caller takes the outcome (the value, or the exception it catches) and
\* goes on
Continue ==
    /\ ~Idle
    /\ last' = NoCall
    /\ UNCHANGED <<registry, PARAMETER_REGISTRY>>

Next ==
    \/ \E params \in ParameterBatches : RegisterParameters(params)
    \/ \E formulas \in FormulaBatches : RegisterFormulas(formulas)
    \/ Continue

Spec == Init /\ [][Next]_vars

\* ------------------------------------------------------------ expressions
\* A sympy expression for the target: c * prod(symbol^x[symbol]), x nonzero.
Expr(c, x) == [c |-> c, x |-> x]

\* expr.atoms(sympy.Symbol)
ExprAtoms(expr) == DOMAIN expr.x

\* the expression that is one symbol
SymbolExpr(k) == Expr(One, [n \in {k} |-> 1])

\* a solver that isolates the reciprocal of the target
solve_reciprocal(eq, target) ==
    <<Expr(Recip(eq.c),
           [n \in {n \in DOMAIN eq.x \cup {eq.lhs} : n # target} |->
                IF n = eq.lhs THEN -1 ELSE 0 - eq.x[n]])>>

\* sympy.solve(eq, target_symbol) for an equation lhs = c * prod(x^e) that
\* contains the target: the list of its solutions. The target is isolated
\* when it stands alone on the left or has exponent 1 or -1 on the right;
\* with another exponent sympy returns one solution per branch of the root.
solve(eq, target) ==
    LET others == {n \in DOMAIN eq.x : eq.x[n] # 0 /\ n # target}
    IN  IF target = eq.lhs
        THEN <<Expr(eq.c, [n \in others |-> eq.x[n]])>>
        ELSE IF eq.x[target] = 1
        THEN <<Expr(Recip(eq.c),
                    [n \in others \cup {eq.lhs} |->
                        IF n = eq.lhs THEN 1 ELSE 0 - eq.x[n]])>>
        ELSE IF eq.x[target] = -1
        THEN <<Expr(eq.c,
                    [n \in others \cup {eq.lhs} |->
                        IF n = eq.lhs THEN -1 ELSE eq.x[n]])>>
        ELSE <<SymbolExpr(eq.lhs), SymbolExpr(eq.lhs)>>

\* sympy.solve(equations, target_symbol) for the whole list and the one
\* unknown: every other symbol is a free parameter, so the system has a
\* solution only if every equation contains the target and all of them give
\* the same expression for it; sympy then returns the dict {target: expr}.
\* Otherwise (no equations, an equation without the target, two equations
\* that disagree) it returns the empty list.
solve_system(eqs, target) ==
    IF /\ eqs # <<>>
       /\ \A i \in DOMAIN eqs : target \in Atoms(eqs[i])
       /\ \A i \in DOMAIN eqs : Len(solve(eqs[i], target)) = 1
       /\ \A i \in DOMAIN eqs : solve(eqs[i], target) = solve(eqs[1], target)
    THEN [type |-> "dict", keys |-> <<target>>,
          values |-> solve(eqs[1], target)]
    ELSE [type |-> "list", keys |-> <<>>, values |-> <<>>]

\* valid_vars that ignores allow_subsets
valid_vars_exact(syms, target_symbol, allowed_symbols, allow_subsets) ==
    target_symbol \in syms /\ syms = allowed_symbols

\* valid_vars, the closure of express_parameter, on the symbols of an
\* equation or expression
valid_vars(syms, target_symbol, allowed_symbols, allow_subsets) ==
    IF target_symbol \notin syms THEN FALSE
    ELSE IF allow_subsets THEN syms \subseteq allowed_symbols
    ELSE syms = allowed_symbols

Raised(err) == [err |-> err, exprs |-> <<>>]

\* express_parameter, lines 270-278: each equation with valid variables is
\* solved for the target; the assert stops the loop
RECURSIVE solve_each(_, _, _, _, _)
solve_each(eqs, target_symbol, allowed_symbols, allow_subsets, res) ==
    IF eqs = <<>> THEN [err |-> "", exprs |-> res]
    ELSE IF ~valid_vars(Atoms(Head(eqs)), target_symbol, allowed_symbols,
                        allow_subsets)
    THEN solve_each(Tail(eqs), target_symbol, allowed_symbols, allow_subsets,
                    res)
    ELSE IF Len(solve(Head(eqs), target_symbol)) # 1
    THEN Raised("AssertionError")
    ELSE solve_each(Tail(eqs), target_symbol, allowed_symbols, allow_subsets,
                    Append(res, solve(Head(eqs), target_symbol)[1]))

\* express_parameter, lines 280-287: list(solutions) of a dict is its keys,
\* the target symbol itself
solve_all(eqs, target_symbol, allowed_symbols, allow_subsets) ==
    LET solutions == solve_system(eqs, target_symbol).keys
        Valid(solution) ==
            valid_vars({solution}, target_symbol, allowed_symbols,
                       allow_subsets)
        kept == SelectSeq(solutions, Valid)
    IN  [err |-> "",
         exprs |-> [i \in DOMAIN kept |-> SymbolExpr(kept[i])]]

\* Formulary.express_parameter on the symbols and equations of a formulary
express_parameter(syms, eqs, parameter, given, allow_subsets) ==
    IF parameter \notin DOMAIN syms \/ ~(given \subseteq DOMAIN syms)
    THEN Raised("KeyError")
    ELSE IF syms[parameter] \in {syms[x] : x \in given}
    THEN Raised("ValueError: in terms of itself")
    ELSE
        LET target_symbol == syms[parameter]
            allowed_symbols == {target_symbol} \cup {syms[x] : x \in given}
            each == solve_each(eqs, target_symbol, allowed_symbols,
                               allow_subsets, <<>>)
        IN  IF each.err # "" \/ each.exprs # <<>> THEN each
            ELSE solve_all(eqs, target_symbol, allowed_symbols, allow_subsets)

\* ------------------------------------------------------------- evaluation
RECURSIVE Sum(_)
Sum(f) ==
    IF DOMAIN f = {} THEN 0
    ELSE LET n == CHOOSE n \in DOMAIN f : TRUE
         IN  f[n] + Sum([y \in DOMAIN f \ {n} |-> f[y]])

\* m ** n for a nonzero m, or for n > 0
MagPow(m, n) ==
    IF m.s = 0 THEN Zero
    ELSE Mag(IF n % 2 = 0 THEN 1 ELSE m.s, m.e * n, m.l * n)

\* the product of the magnitudes mags[n] ** x[n]
Product(c, x, mags) ==
    IF c.s = 0 \/ \E n \in DOMAIN x : mags[n].s = 0 THEN Zero
    ELSE Mag(
        c.s * (IF Cardinality({n \in DOMAIN x : MagPow(mags[n], x[n]).s = -1})
                    % 2 = 0 THEN 1 ELSE -1),
        c.e + Sum([n \in DOMAIN x |-> mags[n].e * x[n]]),
        c.l + Sum([n \in DOMAIN x |-> mags[n].l * x[n]]))

\* _make_callable_from_sympy_expression(expr)(**kwds): the lambdified
\* expression on floats and pint quantities. A quantity among the operands
\* makes the result a quantity whose unit is the expression of the units.
Returned(value) == [err |-> "", value |-> value]
Failed(err) == [err |-> err, value |-> NoValue]

call_expression(expr, kwds) ==
    IF DOMAIN kwds # ExprAtoms(expr) THEN Failed("TypeError")
    ELSE IF \E n \in DOMAIN expr.x : expr.x[n] < 0 /\ kwds[n].m.s = 0
    THEN Failed("ZeroDivisionError")
    ELSE
        LET m == Product(expr.c, expr.x, [n \in DOMAIN kwds |-> kwds[n].m])
        IN  IF \E n \in DOMAIN kwds : kwds[n].q
            THEN Returned(Q_(m,
                    <<Sum([n \in DOMAIN kwds |-> kwds[n].d[1] * expr.x[n]]),
                      Sum([n \in DOMAIN kwds |-> kwds[n].d[2] * expr.x[n]]),
                      Sum([n \in DOMAIN kwds |-> kwds[n].d[3] * expr.x[n]])>>,
                    Sum([n \in DOMAIN kwds |-> kwds[n].k * expr.x[n]])))
            ELSE Returned(Float(m))

\* ------------------------------------------------- Parameter (class) methods
\* a check that finds every unit compatible
unit_is_valid_any(cls, value) == TRUE

\* Parameter._unit_is_valid
unit_is_valid(cls, value) == IF ~value.q THEN TRUE ELSE value.d = cls.unit

\* a conversion that drops the unit without converting
coerce_float_magnitude(value) == value.m

\* units.coerce_float(value, target_unit): the magnitude in the target unit
coerce_float(value) == IF value.q THEN Scale(value.m, value.k) ELSE value.m

\* Parameter.ensure_float
ensure_float(cls, value) == coerce_float(value)

\* a range that excludes its two ends
InRange_open(cls, m) ==
    /\ ~Leq(m, cls.lower)
    /\ (cls.upper.inf \/ ~Leq(cls.upper.m, m))

\* lower <= value <= upper
InRange(cls, m) ==
    /\ Leq(cls.lower, m)
    /\ (cls.upper.inf \/ Leq(m, cls.upper.m))

\* a validation that accepts every value
is_valid_any(cls, value) == TRUE

\* Parameter.is_valid
is_valid(cls, value) ==
    IF ~unit_is_valid(cls, value) THEN FALSE
    ELSE InRange(cls, ensure_float(cls, value))

Invalid == "ValueError: invalid value"

\* pint: Quantity.to(unit); a unit of another dimension raises
DimensionalityError == "DimensionalityError"

to(value, unit, k) ==
    IF value.d # unit THEN Failed(DimensionalityError)
    ELSE Returned(Q_(Scale(value.m, value.k - k), unit, k))

\* units.coerce_unit(value, unit)
coerce_unit(value, unit) ==
    IF value.q THEN to(value, unit, 0)
    ELSE Returned(Q_(value.m, unit, 0))

Incompatible == "RuntimeError: incompatible units"

\* a conversion that keeps the number and replaces the unit
ensure_units_relabel(cls, value, force_standard_units) ==
    Returned(Q_(value.m, cls.unit, 0))

\* Parameter.ensure_units
ensure_units(cls, value, force_standard_units) ==
    IF value.q /\ ~force_standard_units
    THEN IF ~unit_is_valid(cls, value) THEN Failed(Incompatible)
         ELSE Returned(value)
    ELSE coerce_unit(value, cls.unit)

\* Parameter.validate: the error it raises, "" when it returns
validate(cls, value) == IF ~is_valid(cls, value) THEN Invalid ELSE ""

\* ------------------------------------------------------------------ Formula
\* Formula.rhs
Rhs(formula) ==
    Expr(formula.c,
         [n \in {n \in Range(formula.inputs) : ExpOf(formula, n) # 0} |->
            ExpOf(formula, n)])

\* Formula.result_class
ResultClass(formula) ==
    CHOOSE p \in Range(ALL_PARAMETERS) : p.name = formula.result_class

\* a check that accepts every mix of inputs
validate_input_any(kwds) == TRUE

\* Formula.validate_input
validate_input(kwds) ==
    LET n_units == Cardinality({n \in DOMAIN kwds : has_units(kwds[n])})
    IN  n_units \in {0, Cardinality(DOMAIN kwds)}

UnitsError == "RuntimeError: units for all or no inputs"
NotUnique == "RuntimeError: could not express uniquely"

\* a compute that leaves the result as the expression gives it
compute_as_is(formula, kwds, with_units) ==
    IF ~validate_input(kwds) THEN Failed(UnitsError)
    ELSE
        LET res == call_expression(Rhs(formula), kwds)
        IN  IF res.err # "" THEN res
            ELSE IF ~is_valid(ResultClass(formula), res.value)
            THEN Failed(Invalid)
            ELSE res

\* Formula.compute(kwds, with_units), with_units one of "True", "False", "None"
compute(formula, kwds, with_units) ==
    IF ~validate_input(kwds) THEN Failed(UnitsError)
    ELSE
        LET res == call_expression(Rhs(formula), kwds)
        IN  IF res.err # "" THEN res
            ELSE IF ~is_valid(ResultClass(formula), res.value)
            THEN Failed(Invalid)
            ELSE IF with_units = "True"
            THEN ensure_units(ResultClass(formula), res.value, FALSE)
            ELSE IF with_units = "False"
            THEN Returned(Float(ensure_float(ResultClass(formula), res.value)))
            ELSE res

\* Formula.__call__(**kwargs)
call_formula(formula, kwargs) == compute(formula, kwargs, "None")

\* ncand: len(exprs) once express_parameter has returned, else -1
Outcome(err, value, ncand) == [err |-> err, value |-> value, ncand |-> ncand]

\* a test that takes the first of several expressions
any_candidate(exprs) == Len(exprs) >= 1

\* line 302: len(exprs) != 1 raises
single_candidate(exprs) == Len(exprs) = 1

\* Formulary.determine_parameter(parameter, **kwargs) of utils/formula.py
determine_parameter(syms, eqs, parameter, kwargs) ==
    IF ~validate_input(kwargs) THEN Outcome(UnitsError, NoValue, -1)
    ELSE
        LET vars_ == DOMAIN kwargs
            r == express_parameter(syms, eqs, parameter.name, vars_, TRUE)
            exprs == r.exprs
        IN  IF r.err # "" THEN Outcome(r.err, NoValue, -1)
            ELSE IF ~single_candidate(exprs)
            THEN Outcome(NotUnique, NoValue, Len(exprs))
            ELSE
                LET result_expr == exprs[1]
                    expr_syms == ExprAtoms(result_expr)
                    kwds == [k \in {k \in DOMAIN kwargs :
                                        Symbol(k) \in expr_syms}
                                |-> kwargs[k]]
                    res == call_expression(result_expr, kwds)
                IN  IF res.err # "" THEN Outcome(res.err, NoValue, 1)
                    ELSE IF ~is_valid(parameter, res.value)
                    THEN Outcome(Invalid, NoValue, 1)
                    ELSE Outcome("", res.value, 1)

\* --------------------------------------------------- the callers of determine
\* values a caller passes for a parameter: 10 and 10 in the default unit
\* for each; for dose also -1 and 10 mg
ValuesFor(name) ==
    LET unit == (CHOOSE p \in Range(ALL_PARAMETERS) : p.name = name).unit
    IN  {Float(Ten), Q_(Ten, unit, 0)}
        \cup (IF name = "dose" THEN {Float(MinusOne), Q_(Ten, unit, -3)}
              ELSE {})

KeySets == {K \in SUBSET Names : Cardinality(K) <= MaxKnown}

RECURSIVE Assignments(_)
Assignments(K) ==
    IF K = {} THEN {NoKnown}
    ELSE LET n == CHOOSE n \in K : TRUE
         IN  {Put(f, n, v) : f \in Assignments(K \ {n}), v \in ValuesFor(n)}

Knowns == UNION {Assignments(K) : K \in KeySets}

\* Formulary.__init__(parameters=ALL_PARAMETERS, formulas=[]), as relations.py
\* builds the formulary
InitDet ==
    \E ps \in {ALL_PARAMETERS} :
        LET r == register_parameters_loop(NoParameters, NoSymbols, ps)
        IN  /\ r.err = ""
            /\ parameters = r.parameters
            /\ symbols = r.symbols
            /\ formulae = <<>>
            /\ equations = <<>>
            /\ formulas_for_parameter = EmptyIndex
            /\ formulas_containing_parameter = EmptyIndex
            /\ last = NoCall
            /\ PARAMETER_REGISTRY = NoParameters

\* a determine that consumes the equations it has tried
DetermineParameter_consuming(parameter, kwargs) ==
    LET r == determine_parameter(symbols, equations, parameter, kwargs)
    IN  /\ Idle
        /\ last' = Call("determine_parameter", <<>>, parameter.name, kwargs,
                        r.err, r.value, r.ncand)
        /\ equations' = <<>>
        /\ UNCHANGED <<parameters, symbols, formulae, formulas_for_parameter,
                       formulas_containing_parameter, PARAMETER_REGISTRY>>

DetermineParameter(parameter, kwargs) ==
    LET r == determine_parameter(symbols, equations, parameter, kwargs)
    IN  /\ Idle
        /\ last' = Call("determine_parameter", <<>>, parameter.name, kwargs,
                        r.err, r.value, r.ncand)
        /\ UNCHANGED <<registry, PARAMETER_REGISTRY>>

\* formulary.formulae[i](**kwargs), as test_computations calls the formulas
CallFormula(i, kwargs) ==
    LET r == call_formula(formulae[i], kwargs)
    IN  /\ Idle
        /\ last' = Call("formula", <<formulae[i]>>,
                        formulae[i].result_class, kwargs, r.err, r.value, 0)
        /\ UNCHANGED <<registry, PARAMETER_REGISTRY>>

NextDet ==
    \/ \E formulas \in FormulaBatches : RegisterFormulas(formulas)
    \/ \E parameter \in Range(ALL_PARAMETERS), kwargs \in Knowns :
            DetermineParameter(parameter, kwargs)
    \/ \E i \in DOMAIN formulae :
        \E kwargs \in Assignments(Range(formulae[i].inputs)) :
            CallFormula(i, kwargs)
    \/ Continue

SpecDet == InitDet /\ [][NextDet]_vars

\* ------------------------------------- utils/registry.py: determine_parameter
NoSolution == "TypeError: list indices must be integers"
NotNumeric == "TypeError: cannot determine truth value"
NoUnitsAttribute == "AttributeError: units"

\* eq.subs(vals), seen from the target: the names left free by the knowns
FreeIn(eq, target, vals) == Atoms(eq) \ (DOMAIN vals \cup {target})

\* the value of the right-hand side of eq on the floats vals
RhsOn(eq, vals) ==
    call_expression(Expr(eq.c, [n \in Atoms(eq) \ {eq.lhs} |-> eq.x[n]]),
                    [n \in Atoms(eq) \ {eq.lhs} |-> vals[n]])

\* an equation without the target, all of whose names are known, becomes
\* True or False
HoldsOn(eq, vals) ==
    /\ RhsOn(eq, vals).err = ""
    /\ RhsOn(eq, vals).value = vals[eq.lhs]

\* the value an equation with the target, and no other free name, gives
\* for the target
TargetOn(eq, target, vals) ==
    LET expr == solve(eq, target)[1]
    IN  call_expression(expr, [n \in ExprAtoms(expr) |-> vals[n]])

\* a solver that looks at the first equation with the target only
solve_substituted_first(eqs, target, vals) ==
    LET with == {i \in DOMAIN eqs :
                    target \in Atoms(eqs[i]) /\ FreeIn(eqs[i], target, vals) = {}
                    /\ Len(solve(eqs[i], target)) = 1}
    IN  IF with = {} THEN [type |-> "list", err |-> "", value |-> NoValue]
        ELSE LET i == CHOOSE i \in with : \A j \in with : i <= j
             IN  [type |-> "dict", err |-> "",
                  value |-> TargetOn(eqs[i], target, vals).value]

\* sympy.solve(substituted, target): a dict {target: value} when the
\* equations that are left (those that did not become True) all contain the
\* target, have no other free name, have one solution each and agree on it;
\* a dict with an expression when the one equation left has other free
\* names; otherwise no dict (an empty list, or a list of branches)
solve_substituted(eqs, target, vals) ==
    LET left == {i \in DOMAIN eqs :
                    ~(/\ target \notin Atoms(eqs[i])
                      /\ FreeIn(eqs[i], target, vals) = {}
                      /\ HoldsOn(eqs[i], vals))}
        Numeric(i) ==
            /\ target \in Atoms(eqs[i])
            /\ FreeIn(eqs[i], target, vals) = {}
            /\ Len(solve(eqs[i], target)) = 1
            /\ TargetOn(eqs[i], target, vals).err = ""
    IN  IF left = {} THEN [type |-> "list", err |-> "", value |-> NoValue]
        ELSE IF /\ Cardinality(left) = 1
                /\ \A i \in left :
                    /\ target \in Atoms(eqs[i])
                    /\ FreeIn(eqs[i], target, vals) # {}
                    /\ Len(solve(eqs[i], target)) = 1
        THEN [type |-> "dict", err |-> NotNumeric, value |-> NoValue]
        ELSE IF /\ \A i \in left : Numeric(i)
                /\ \A i, j \in left :
                    TargetOn(eqs[i], target, vals).value
                        = TargetOn(eqs[j], target, vals).value
        THEN [type |-> "dict", err |-> "",
              value |-> TargetOn(eqs[CHOOSE i \in left : TRUE], target,
                                 vals).value]
        ELSE [type |-> "list", err |-> "", value |-> NoValue]

\* Formulary.determine_parameter(parameter, **kwargs) of utils/registry.py.
\* The solution is a sympy number: with units it becomes the magnitude of a
\* quantity in the unit of the parameter; without, validate reads its
\* units attribute, which a sympy number does not have.
determine_parameter_registry(pars, syms, eqs, parameter, kwargs) ==
    IF ~validate_input(kwargs) THEN Outcome(UnitsError, NoValue, -1)
    ELSE IF parameter.name \notin DOMAIN syms
            \/ ~(DOMAIN kwargs \subseteq DOMAIN syms)
    THEN Outcome("KeyError", NoValue, -1)
    ELSE IF \E k \in DOMAIN kwargs :
                kwargs[k].q /\ kwargs[k].d # pars[k].unit
    THEN Outcome(DimensionalityError, NoValue, -1)
    ELSE IF parameter.name \in DOMAIN kwargs
    THEN Outcome(NoSolution, NoValue, -1)
    ELSE
        LET res_units == \A k \in DOMAIN kwargs : has_units(kwargs[k])
            vals == [k \in DOMAIN kwargs |->
                        Float(ensure_float(pars[k], kwargs[k]))]
            solved == solve_substituted(eqs, syms[parameter.name], vals)
        IN  IF solved.type # "dict" THEN Outcome(NoSolution, NoValue, -1)
            ELSE IF ~res_units THEN Outcome(NoUnitsAttribute, NoValue, -1)
            ELSE IF solved.err # "" THEN Outcome(solved.err, NoValue, -1)
            ELSE
                LET res == ensure_units(parameter, solved.value, FALSE)
                IN  IF ~is_valid(parameter, res.value)
                    THEN Outcome(Invalid, NoValue, -1)
                    ELSE Outcome("", res.value, -1)

\* determine_parameter of the Formulary of utils/registry.py, which holds
\* the same parameters, symbols, formulae and equations
DetermineParameterRegistry(parameter, kwargs) ==
    LET r == determine_parameter_registry(parameters, symbols, equations,
                                          parameter, kwargs)
    IN  /\ Idle
        /\ last' = Call("registry.determine_parameter", <<>>, parameter.name,
                        kwargs, r.err, r.value, r.ncand)
        /\ UNCHANGED <<registry, PARAMETER_REGISTRY>>

NextOld ==
    \/ \E formulas \in FormulaBatches : RegisterFormulas(formulas)
    \/ \E parameter \in Range(ALL_PARAMETERS), kwargs \in Knowns :
            DetermineParameterRegistry(parameter, kwargs)
    \/ Continue

\* the Formulary of utils/registry.py, as relations.py builds it
SpecOld == InitDet /\ [][NextOld]_vars

\* ------------------------------------------------- defining a Parameter
\* a class attribute's value, by its type: None, a pint.Unit, or a str
NoneValue == [type |-> "NoneType", d |-> Dimensionless]
UnitValue(d) == [type |-> "Unit", d |-> d]
StrValue == [type |-> "str", d |-> Dimensionless]

\* REQUIRED_ATTRIBUTES: ("unit", None|pint.Unit)
REQUIRED_ATTRIBUTES == <<[attr |-> "unit", types |-> {"NoneType", "Unit"}]>>

\* _type_is_correct, for a type hint that is a union
type_is_correct(value, type_condition) == value.type \in type_condition

NoUnitSet == "RuntimeError: no unit set"
TypeError == "TypeError"

\* the classes a new class can derive from: Parameter, whose unit is None,
\* and the parameters of the package
Bases == {"Parameter"} \cup {p.name : p \in Range(ALL_PARAMETERS)}

\* getattr(base, "unit")
BaseUnit(base) ==
    IF base = "Parameter" THEN NoneValue
    ELSE UnitValue((CHOOSE p \in Range(ALL_PARAMETERS) : p.name = base).unit)

NoClass == [base |-> "", unit |-> NoneValue]
Defined(err, cls) == [err |-> err, cls |-> cls]

\* a metaclass that looks the attribute up on the class, bases included
ParameterMeta_new_inheriting(base, dct) ==
    LET attr_val == IF "unit" \in DOMAIN dct THEN dct["unit"]
                    ELSE BaseUnit(base)
    IN  IF ~type_is_correct(attr_val, {"NoneType", "Unit"})
        THEN Defined(TypeError, NoClass)
        ELSE Defined("", [base |-> base, unit |-> attr_val])

\* ParameterMeta.__new__(cls, name, bases, dct): REQUIRED_ATTRIBUTES has the
\* one entry "unit"; the class it returns takes unit from its body
ParameterMeta_new(base, dct) ==
    LET attr == REQUIRED_ATTRIBUTES[1].attr
        type_hint == REQUIRED_ATTRIBUTES[1].types
    IN  IF attr \notin DOMAIN dct THEN Defined(NoUnitSet, NoClass)
        ELSE IF ~type_is_correct(dct[attr], type_hint)
        THEN Defined(TypeError, NoClass)
        ELSE Defined("", [base |-> base, unit |-> dct[attr]])

\* ------------------------------------ calls on parameters and formulas
\* a class a caller defines with a finite upper: at most 10 g
capped_dose ==
    [ParameterClass("caller", "capped_dose", MASS) EXCEPT !.upper = Finite(Ten)]

ParameterClasses == Range(ALL_PARAMETERS) \cup {capped_dose}

\* the floats a caller passes: 0 and +-10^e
Magnitudes ==
    {Zero} \cup {Mag(s, e, 0) : s \in {-1, 1}, e \in (0 - MaxExp)..MaxExp}

\* the default unit of a dimension and a thousand of it (g and kg, ml and l)
Prefixes == {0, 3}

Units == {p.unit : p \in ParameterClasses} \cup {Dimensionless}

Values ==
    {Float(m) : m \in Magnitudes}
    \cup {Q_(m, d, k) : m \in Magnitudes, d \in Units, k \in Prefixes}

UnitOf(name) == (CHOOSE p \in Range(ALL_PARAMETERS) : p.name = name).unit

\* what a caller passes for an input: a float, a quantity of the
\* parameter's dimension, a dimensionless quantity or a time
InputValues(name) ==
    {v \in Values : v.q => v.d \in {UnitOf(name), Dimensionless, TIME}}

\* the class bodies: no unit, unit = None, unit = a pint.Unit, unit = "g"
ClassBodies ==
    {[a \in {} |-> NoneValue]}
    \cup {[a \in {"unit"} |-> v] :
            v \in {NoneValue, StrValue} \cup {UnitValue(d) : d \in Units}}

\* the keyword arguments of a call: a value for each of the names
RECURSIVE KeywordsFor(_)
KeywordsFor(K) ==
    IF K = {} THEN {NoKnown}
    ELSE LET n == CHOOSE n \in K : TRUE
         IN  {Put(f, n, v) : f \in KeywordsFor(K \ {n}), v \in InputValues(n)}

Keywords(formula) == KeywordsFor(Range(formula.inputs))

ParCall(op, cls, value, force, err, ret, valid) ==
    [op |-> op, cls |-> cls, value |-> value, force |-> force, err |-> err,
     ret |-> ret, valid |-> valid]

\* class name(base): <dct>
DefineParameter ==
    /\ Idle
    /\ \E base \in Bases, dct \in ClassBodies :
        LET r == ParameterMeta_new(base, dct)
        IN  last' = [op |-> "class", base |-> base, dct |-> dct,
                     err |-> r.err, cls |-> r.cls]
    /\ UNCHANGED <<registry, PARAMETER_REGISTRY>>

\* cls.is_valid(value)
IsValid ==
    /\ Idle
    /\ \E cls \in ParameterClasses, value \in Values :
        last' = ParCall("is_valid", cls, value, FALSE, "", NoValue,
                        is_valid(cls, value))
    /\ UNCHANGED <<registry, PARAMETER_REGISTRY>>

\* cls.validate(value)
Validate ==
    /\ Idle
    /\ \E cls \in ParameterClasses, value \in Values :
        last' = ParCall("validate", cls, value, FALSE, validate(cls, value),
                        NoValue, FALSE)
    /\ UNCHANGED <<registry, PARAMETER_REGISTRY>>

\* cls.ensure_units(value, force_standard_units)
EnsureUnits ==
    /\ Idle
    /\ \E cls \in ParameterClasses, value \in Values,
          force_standard_units \in BOOLEAN :
        LET r == ensure_units(cls, value, force_standard_units)
        IN  last' = ParCall("ensure_units", cls, value, force_standard_units,
                            r.err, r.value, FALSE)
    /\ UNCHANGED <<registry, PARAMETER_REGISTRY>>

\* formula(**kwds, with_units=with_units)
Compute ==
    /\ Idle
    /\ \E formula \in FormulaPool :
        \E kwds \in Keywords(formula),
           with_units \in {"True", "False", "None"} :
            LET r == compute(formula, kwds, with_units)
            IN  last' = [op |-> "compute", formula |-> formula,
                         kwds |-> kwds, with_units |-> with_units,
                         err |-> r.err, ret |-> r.value]
    /\ UNCHANGED <<registry, PARAMETER_REGISTRY>>

\* the units of the dimension of a quantity: a thousandth of the default
\* unit, the default unit and a thousand of it (mg, g, kg)
alternative_units == {-3, 0, 3}

\* converted = value.to(alt); cls.is_valid(converted), for a quantity and a
\* unit alt of the same dimension
ValidateConverted ==
    /\ Idle
    /\ \E cls \in ParameterClasses, value \in Values,
          alt \in alternative_units :
        /\ value.q
        /\ LET converted == to(value, value.d, alt)
           IN  last' = ParCall("to.is_valid", cls, value, FALSE,
                               converted.err, converted.value,
                               is_valid(cls, converted.value))
    /\ UNCHANGED <<registry, PARAMETER_REGISTRY>>

\* ------------------------------------------------ Parameter.example_values
\* classes a caller defines with other bounds
BoundedClasses ==
    {[dose EXCEPT !.lower = l, !.upper = u] :
        l \in {Zero, One, Mag(1, 2, 0)},
        u \in {Inf, Finite(One), Finite(Ten)}}

\* an upper that is always the fixed value
example_upper_fixed(cls) == Ten

\* lines 133-135: the fixed value 10 stands in for an infinite upper
example_upper(cls) == IF cls.upper.inf THEN Ten ELSE cls.upper.m

\* numpy Generator.uniform(low, high): the values it can draw; high < low
\* raises ValueError
uniform(low, high) ==
    IF ~Leq(low, high) THEN {Failed("ValueError: high - low < 0")}
    ELSE {Returned(Float(m)) : m \in {m \in Magnitudes : Leq(low, m) /\ Leq(m, high)}}

\* Simulator.__call__ with lower_bound = upper_bound = None: np.clip with
\* both limits None raises ValueError in numpy before 2.1 and returns the
\* sample in later versions
Simulator_call(low, high) ==
    {Failed("ValueError: one of max or min must be given")}
    \cup uniform(low, high)

\* Parameter.example_values(size=None, with_units, seed): the outcomes over
\* the seeds
example_values(cls, with_units) ==
    {IF res.err # "" \/ ~with_units THEN res
     ELSE ensure_units(cls, res.value, FALSE) :
        res \in Simulator_call(cls.lower, example_upper(cls))}

\* cls.example_values(with_units=with_units, seed=seed)
ExampleValues ==
    /\ Idle
    /\ \E cls \in BoundedClasses, with_units \in BOOLEAN :
        \E r \in example_values(cls, with_units) :
            last' = ParCall("example_values", cls, NoValue, with_units,
                            r.err, r.value, FALSE)
    /\ UNCHANGED <<registry, PARAMETER_REGISTRY>>

\* ------------------------------------------------------- Formula(func, cls)
\* a function that does not use one of its arguments:
\* lambda dose, auc: 10*dose
clearance_ignoring_auc ==
    MakeFormula("clearance_ignoring_auc", "clearance", <<"dose", "auc">>,
                Ten, <<1, 0>>)

\* the functions a caller wraps with Parameter.formula
Functions == FormulaPool \cup {clearance_ignoring_auc}

\* cls.formula(func): Formula.__init__
NewFormula ==
    /\ Idle
    /\ \E formula \in Functions :
        last' = [op |-> "Formula", formula |-> formula,
                 inputs |-> formula.inputs, lhs |-> Symbol(formula.result_class),
                 rhs |-> Rhs(formula), eq |-> Eq(formula), err |-> ""]
    /\ UNCHANGED <<registry, PARAMETER_REGISTRY>>

NextPar ==
    \/ DefineParameter
    \/ IsValid
    \/ Validate
    \/ EnsureUnits
    \/ Compute
    \/ ValidateConverted
    \/ ExampleValues
    \/ NewFormula
    \/ Continue

\* the package as imported: the formulary of relations.py, and the classes
\* and formulas a caller uses directly
SpecPar == InitDet /\ [][NextPar]_vars

\* ------------------------------------------------- pharmakin.registry
KeySet == "RuntimeError: key is already set"

\* dict.__setitem__
dict_setitem(items, key, value) == [err |-> "", items |-> Put(items, key, value)]

\* Registry.__setitem__
Registry_setitem(items, key, value) ==
    IF key \in DOMAIN items THEN [err |-> KeySet, items |-> items]
    ELSE dict_setitem(items, key, value)

\* the names under which classes are registered
RegistryKeys == {p.name : p \in ParameterPool}

\* PARAMETER_REGISTRY[key] = value
SetItem ==
    /\ Idle
    /\ \E key \in RegistryKeys, value \in ParameterPool :
        LET r == Registry_setitem(PARAMETER_REGISTRY, key, value)
        IN  /\ PARAMETER_REGISTRY' = r.items
            /\ last' = [op |-> "setitem", key |-> key, value |-> value,
                        err |-> r.err]
    /\ UNCHANGED registry

NextReg ==
    \/ SetItem
    \/ Continue

\* PARAMETER_REGISTRY = Registry() and the assignments made to it
SpecReg == Init /\ [][NextReg]_vars

\* ------------------------------------------------- registration: claims
\* the batch items that register_parameters finds already registered: the
\* name is in the formulary before the call, or earlier in the same batch
IsDuplicate(pars, params, i) ==
    \/ params[i].name \in DOMAIN pars
    \/ \E j \in 1..(i - 1) : params[j].name = params[i].name

\* C8: registering a Parameter whose name is already present raises and
\* the name keeps the Parameter and the symbol it had; a name that is not
\* yet present is stored with a symbol of the same name.
C8_DuplicateParameterRaises ==
    [][last'.op = "register_parameters" =>
        LET params == last'.batch
        IN  /\ \A k \in DOMAIN parameters :
                /\ k \in DOMAIN parameters' /\ k \in DOMAIN symbols'
                /\ parameters'[k] = parameters[k]
                /\ symbols'[k] = symbols[k]
            /\ (\E i \in DOMAIN params : IsDuplicate(parameters, params, i))
                    <=> last'.err = AlreadyRegistered
            /\ \A i \in DOMAIN params :
                    (\A j \in 1..i : ~IsDuplicate(parameters, params, j)) =>
                        /\ params[i].name \in DOMAIN parameters'
                        /\ parameters'[params[i].name] = params[i]
                        /\ symbols'[params[i].name] = Symbol(params[i].name)
    ]_vars

\* a second class named dose was refused and the first one is still there
C8_Witness ==
    /\ last.op = "register_parameters"
    /\ last.err = AlreadyRegistered
    /\ \E i \in DOMAIN last.batch :
        /\ last.batch[i].name \in DOMAIN parameters
        /\ parameters[last.batch[i].name] # last.batch[i]

\* the names a formula refers to
Referenced(formula) == Range(VarsOf(formula))

\* C9: registering a Formula whose result or one of whose inputs is not a
\* registered Parameter raises in the registration call itself.
C9_UnregisteredRaisesAtRegistration ==
    last.op = "register_formulas" =>
        ((\E i \in DOMAIN last.batch :
            ~(Referenced(last.batch[i]) \subseteq DOMAIN parameters))
         <=> last.err = NotRegistered)

C9_Witness ==
    /\ last.op = "register_formulas"
    /\ last.err = NotRegistered
    /\ \E i \in DOMAIN last.batch :
        /\ last.batch[i].result_class \in DOMAIN parameters
        /\ ~(Range(last.batch[i].inputs) \subseteq DOMAIN parameters)

\* C10: in every reachable state, also after a registration call raised,
\* every formula of the formula list and every equation of the equation
\* list refers to registered parameters only.
C10_RegisteredFormulasReferToRegistered ==
    /\ \A i \in DOMAIN formulae :
            Referenced(formulae[i]) \subseteq DOMAIN parameters
    /\ \A i \in DOMAIN equations :
            Atoms(equations[i]) \subseteq DOMAIN parameters

\* ---------------------------------------------------- determine: claims
Determined == last.op = "determine_parameter"

TargetClass == CHOOSE p \in Range(ALL_PARAMETERS) : p.name = last.target

ClassNamed(name) == CHOOSE p \in Range(ALL_PARAMETERS) : p.name = name

\* {target} and the names of the knowns
Allowed == {last.target} \cup DOMAIN last.known

\* the registered equations that contain the target and no name outside
\* Allowed, and those whose names are exactly Allowed
Candidates ==
    {i \in DOMAIN equations :
        last.target \in Atoms(equations[i]) /\ Atoms(equations[i]) \subseteq Allowed}
ExactMatches == {i \in DOMAIN equations : Atoms(equations[i]) = Allowed}

\* sympy gives exactly one solution of equation i for the target
Isolable(i) == Len(solve(equations[i], last.target)) = 1

\* the call is one determine can work on: the target is not among the
\* knowns, and all or none of the knowns carry units
WellFormed ==
    /\ Determined
    /\ last.target \notin DOMAIN last.known
    /\ LET n == Cardinality({k \in DOMAIN last.known : has_units(last.known[k])})
       IN  n = 0 \/ n = Cardinality(DOMAIN last.known)

\* formula i computes the target from exactly the knowns
Computes(i) ==
    /\ formulae[i].result_class = last.target
    /\ Range(formulae[i].inputs) = DOMAIN last.known

\* what the expression from equation i gives on the knowns it uses, after
\* the validation of the result
ValueFrom(i) ==
    LET expr == solve(equations[i], last.target)[1]
        res == call_expression(expr,
                    [k \in DOMAIN last.known \cap ExprAtoms(expr) |->
                        last.known[k]])
    IN  IF res.err = "" /\ ~is_valid(TargetClass, res.value)
        THEN Failed(Invalid) ELSE res

AmbiguousPair ==
    \E i, j \in DOMAIN formulae :
        /\ formulae[i] # formulae[j]
        /\ formulae[i].result_class = last.target
        /\ formulae[j].result_class = last.target
        /\ Range(formulae[i].inputs) = Range(formulae[j].inputs)
        /\ Range(formulae[i].inputs) \subseteq DOMAIN last.known

\* C2: with two independent formulas for the same target from the same
\* variable set in the formulary, determine raises for every choice of
\* known values and returns the value of neither.
C2_AmbiguousRaises ==
    (Determined /\ AmbiguousPair) => (last.err # "" /\ last.value = NoValue)

\* determine raised although each of the two formulas alone gives a value
C2_Witness ==
    /\ WellFormed
    /\ AmbiguousPair
    /\ last.err = NotUnique
    /\ \E i, j \in Candidates :
        /\ i # j
        /\ ValueFrom(i).err = "" /\ ValueFrom(j).err = ""
        /\ ValueFrom(i).value # ValueFrom(j).value

\* C3 as stated: the error of a determine call that found no candidate is
\* of another kind than the error of a call that found several, so that a
\* caller can tell the two apart.
C3_ZeroAndManyDistinguishable ==
    (Determined /\ last.ncand = 0 /\ last.err # "") =>
        \A p \in Range(ALL_PARAMETERS) :
            \A kw \in Assignments(Names \ {p.name}) :
                LET o == determine_parameter(symbols, equations, p, kw)
                IN  o.ncand > 1 => o.err # last.err

\* C3 amended: determine requires exactly one final candidate expression;
\* when the search for candidates ends with none or with more than one it
\* raises the same RuntimeError ("could not express ... uniquely"), which
\* does not tell the two apart. (The search itself stops on an assertion
\* when a candidate equation has several solutions for the target.)
C3_NotExactlyOneRaisesNotUnique ==
    Determined =>
        /\ (last.ncand >= 0 /\ last.ncand # 1) <=> last.err = NotUnique
        /\ last.err = "" => last.ncand = 1
        /\ (WellFormed /\ Cardinality(Candidates) >= 1) =>
                IF \A i \in Candidates : Isolable(i)
                THEN last.ncand = Cardinality(Candidates)
                ELSE last.err = "AssertionError"
        /\ (WellFormed /\ Candidates = {}) => last.ncand \in {0, 1}

\* several candidates raised the error that no candidate raises in the
\* same formulary
C3_Witness ==
    /\ WellFormed
    /\ Cardinality(Candidates) > 1
    /\ last.err = NotUnique
    /\ determine_parameter(symbols, <<>>, TargetClass, last.known).ncand = 0
    /\ determine_parameter(symbols, <<>>, TargetClass, last.known).err = NotUnique

\* C4 as stated: if exactly one registered equation has the free variables
\* {target} and the knowns, determine returns the value of its expression,
\* also when other registered equations with the target have a proper
\* subset of these variables.
C4_ExactMatchTakesPrecedence ==
    (WellFormed /\ Cardinality(ExactMatches) = 1) =>
        \A i \in ExactMatches :
            (Isolable(i) /\ ValueFrom(i).err = "") =>
                (last.err = "" /\ last.value = ValueFrom(i).value)

\* C4 amended: with exactly one such equation determine has the outcome of
\* its expression if the equation has a single solution for the target and
\* no other registered equation contains the target within these
\* variables; otherwise determine raises.
C4_ExactMatchOnlyIfSoleCandidate ==
    (WellFormed /\ Cardinality(ExactMatches) = 1) =>
        \A i \in ExactMatches :
            IF Candidates = {i} /\ Isolable(i)
            THEN last.err = ValueFrom(i).err /\ last.value = ValueFrom(i).value
            ELSE last.err # "" /\ last.value = NoValue

\* an exact match that would give a valid value, and a second equation on
\* a proper subset: determine raised
C4_Witness ==
    /\ WellFormed
    /\ Cardinality(ExactMatches) = 1
    /\ \E i \in ExactMatches : Isolable(i) /\ ValueFrom(i).err = ""
    /\ \E j \in Candidates : Atoms(equations[j]) # Allowed
    /\ last.err = NotUnique

\* the target is reachable only by chaining two equations through a name
\* m that is neither known nor the target
ChainThrough(i, j, m) ==
    /\ i # j
    /\ m \notin Allowed
    /\ m \in Atoms(equations[i])
    /\ Atoms(equations[i]) \subseteq DOMAIN last.known \cup {m}
    /\ {m, last.target} \subseteq Atoms(equations[j])
    /\ Atoms(equations[j]) \subseteq Allowed \cup {m}

\* the value of the chain: m from equation i, then the target from j
ChainValue(i, j, m) ==
    LET em == solve(equations[i], m)[1]
        vm == call_expression(em, [k \in ExprAtoms(em) |-> last.known[k]])
        et == solve(equations[j], last.target)[1]
        with == Put(last.known, m, vm.value)
    IN  call_expression(et, [k \in ExprAtoms(et) |-> with[k]])

\* C5: when no single registered equation yields the target from the
\* knowns but two of them chained through an intermediate parameter do,
\* determine returns the derived value.
C5_ChainedFormulasDetermine ==
    (/\ WellFormed
     /\ Candidates = {}
     /\ \A k \in DOMAIN last.known :
            ~last.known[k].q /\ last.known[k].m.s = 1) =>
        \A i, j \in DOMAIN equations : \A m \in Names :
            (/\ ChainThrough(i, j, m)
             /\ Len(equations) = 2
             /\ Len(solve(equations[i], m)) = 1
             /\ Isolable(j)) =>
                /\ last.err = ""
                /\ last.value = ChainValue(i, j, m).value

\* some but not all knowns carry units
Mixed ==
    /\ \E k \in DOMAIN last.known : has_units(last.known[k])
    /\ \E k \in DOMAIN last.known : ~has_units(last.known[k])

\* C6: if some but not all known values carry units, determine raises the
\* unit-consistency error, before an equation is selected or solved, and
\* returns no value.
C6_MixedUnitsRaiseFirst ==
    (Determined /\ Mixed) => (last.err = UnitsError /\ last.value = NoValue)

\* mixed knowns, among them the target itself, in a formulary where the
\* names of the knowns select an equation
C6_Witness ==
    /\ Determined
    /\ Mixed
    /\ last.err = UnitsError
    /\ last.target \in DOMAIN last.known
    /\ \E i \in DOMAIN equations : Atoms(equations[i]) \subseteq DOMAIN last.known

AllWithUnits ==
    /\ DOMAIN last.known # {}
    /\ \A k \in DOMAIN last.known : has_units(last.known[k])
NoneWithUnits == \A k \in DOMAIN last.known : ~has_units(last.known[k])

\* C7 as stated: a value that determine returns lies in the range of the
\* target, is bare when no known carried units, and carries the canonical
\* unit of the target when all knowns carried units.
C7_ReturnedValueCanonical ==
    (Determined /\ last.err = "") =>
        /\ InRange(TargetClass, coerce_float(last.value))
        /\ NoneWithUnits => ~last.value.q
        /\ AllWithUnits =>
            (last.value.q /\ last.value.d = TargetClass.unit
                /\ last.value.k = 0)

\* C7 amended: a value that determine returns lies, converted to the
\* canonical unit, in the range of the target; it is bare when no known
\* carried units; when all knowns carried units it carries the unit that
\* the expression gives on the units of the knowns, which is compatible
\* with the canonical unit of the target and need not be that unit.
C7_ReturnedValueValid ==
    (Determined /\ last.err = "") =>
        /\ InRange(TargetClass, coerce_float(last.value))
        /\ NoneWithUnits => ~last.value.q
        /\ AllWithUnits =>
            (last.value.q /\ last.value.d = TargetClass.unit)

\* a dose in mg gave a clearance that is not in ml/hour
C7_Witness ==
    /\ Determined
    /\ last.err = ""
    /\ AllWithUnits
    /\ last.value.q
    /\ last.value.d = TargetClass.unit
    /\ last.value.k # 0

\* --------------------------------------------- Formula.compute: claims
Computed == last.op = "compute"

\* the number of keyword values that are quantities with a dimension
NUnits(kwds) ==
    Cardinality({n \in DOMAIN kwds :
                    kwds[n].q /\ kwds[n].d # Dimensionless})

MixedInputs(kwds) == NUnits(kwds) \notin {0, Cardinality(DOMAIN kwds)}

\* value is bare or of the dimension of cls, and within [lower, upper] in
\* the unit of cls
ValidFor(cls, value) ==
    /\ value.q => value.d = cls.unit
    /\ LET m == IF value.q THEN Scale(value.m, value.k) ELSE value.m
       IN  /\ Leq(cls.lower, m)
           /\ cls.upper.inf \/ Leq(m, cls.upper.m)

\* C11: a compute whose inputs are mixed (some carry units, some do not)
\* raises the unit-consistency error, whatever the numbers are, and returns
\* nothing; no other compute raises that error.
C11_MixedInputsRaise ==
    Computed =>
        /\ MixedInputs(last.kwds) <=> last.err = UnitsError
        /\ MixedInputs(last.kwds) => last.ret = NoValue

\* dose / auc with a dose in g and a bare auc of 0: the units error, not a
\* division by zero
C11_Witness ==
    /\ Computed
    /\ last.formula = clearence_from_dose_auc
    /\ has_units(last.kwds["dose"])
    /\ last.kwds["auc"] = Float(Zero)
    /\ last.err = UnitsError

\* C12: a compute that returns: with_units=True gives a quantity with a
\* unit, with_units=False a bare float, with_units=None a quantity with a
\* unit iff all inputs carried units.
C12_UnitForcingPolicy ==
    (Computed /\ last.err = "") =>
        /\ last.with_units = "True" =>
                last.ret.q /\ last.ret.d # Dimensionless
        /\ last.with_units = "False" => ~last.ret.q
        /\ last.with_units = "None" =>
                /\ (last.ret.q /\ last.ret.d # Dimensionless)
                        <=> NUnits(last.kwds) = Cardinality(DOMAIN last.kwds)
                /\ ~last.ret.q <=> NUnits(last.kwds) = 0

\* bare inputs and with_units=True: a quantity in the unit of the result
C12_Witness ==
    /\ Computed
    /\ last.err = ""
    /\ last.with_units = "True"
    /\ \A n \in DOMAIN last.kwds : ~last.kwds[n].q
    /\ last.ret.q
    /\ last.ret.d = ResultClass(last.formula).unit

\* the value of the right-hand side on the inputs
RhsValue == call_expression(Rhs(last.formula), last.kwds)

\* C13: a value returned by a formula is valid for the result parameter; a
\* computed result out of range (or of another dimension) raises ValueError
\* and nothing is returned, for bare and unit-attached inputs alike.
C13_ReturnedResultValid ==
    Computed =>
        /\ last.err = "" => ValidFor(ResultClass(last.formula), last.ret)
        /\ (/\ ~MixedInputs(last.kwds)
            /\ RhsValue.err = ""
            /\ ~ValidFor(ResultClass(last.formula), RhsValue.value))
                => last.err = Invalid /\ last.ret = NoValue

\* inputs in compatible units whose result is negative
C13_Witness ==
    /\ Computed
    /\ last.err = Invalid
    /\ \A n \in DOMAIN last.kwds :
            last.kwds[n].q /\ last.kwds[n].d = UnitOf(n)
    /\ RhsValue.value.d = ResultClass(last.formula).unit
    /\ RhsValue.value.m.s = -1

\* C14: a compute returns only if every input is valid for the parameter it
\* is given for.
C14_SuppliedValuesValidated ==
    (Computed /\ last.err = "") =>
        \A n \in DOMAIN last.kwds : ValidFor(ClassNamed(n), last.kwds[n])

\* ----------------------------------------------- Parameter: claims
\* the value in the unit of the class, for a bare or compatible value
Canonical(value) == IF value.q THEN Scale(value.m, value.k) ELSE value.m

Compatible(cls, value) == value.q => value.d = cls.unit

Below(x, y) == ~Leq(y, x)

\* C15: for a bare or compatible value, is_valid is true at lower, false
\* below lower, true at a finite upper and false above it.
C15_BoundsInclusive ==
    (last.op = "is_valid" /\ Compatible(last.cls, last.value)) =>
        LET m == Canonical(last.value)
            cls == last.cls
        IN  /\ m = cls.lower => last.valid
            /\ Below(m, cls.lower) => ~last.valid
            /\ (~cls.upper.inf /\ m = cls.upper.m) => last.valid
            /\ (~cls.upper.inf /\ Below(cls.upper.m, m)) => ~last.valid

\* 0.01 kg is valid for a parameter of at most 10 g
C15_Witness ==
    /\ last.op = "is_valid"
    /\ ~last.cls.upper.inf
    /\ last.value.q /\ last.value.k # 0
    /\ Canonical(last.value) = last.cls.upper.m
    /\ last.valid

\* C16: is_valid is false for a value with a unit of another dimension,
\* whatever its magnitude, and validate raises for it.
C16_IncompatibleUnitInvalid ==
    /\ (last.op = "is_valid" /\ ~Compatible(last.cls, last.value)) =>
            (~last.valid /\ last.err = "")
    /\ (last.op = "validate" /\ ~Compatible(last.cls, last.value)) =>
            last.err = Invalid

\* a magnitude within the range, in a unit of another dimension
C16_Witness ==
    /\ last.op = "is_valid"
    /\ last.value.q
    /\ last.value.d \notin {last.cls.unit, Dimensionless}
    /\ Leq(last.cls.lower, last.value.m)
    /\ ~last.valid

\* C17: a class body without a unit fails at definition, also when the
\* base class has a unit.
C17_UndeclaredUnitFails ==
    (last.op = "class" /\ "unit" \notin DOMAIN last.dct) =>
        last.err = NoUnitSet /\ last.cls = NoClass

C17_Witness ==
    /\ last.op = "class"
    /\ "unit" \notin DOMAIN last.dct
    /\ BaseUnit(last.base).type = "Unit"
    /\ last.err = NoUnitSet

\* C18: every class that was defined has a unit that is a pint.Unit.
C18_DefinedUnitIsUnit ==
    (last.op = "class" /\ last.err = "") => last.cls.unit.type = "Unit"

\* C19: ensure_units attaches the unit of the class to a bare number, fails
\* on a unit of another dimension with and without force, returns a
\* compatible quantity unchanged without force and converted to the unit of
\* the class with force.
C19_EnsureUnits ==
    last.op = "ensure_units" =>
        LET v == last.value
            cls == last.cls
        IN  /\ ~v.q => last.err = "" /\ last.ret = Q_(v.m, cls.unit, 0)
            /\ (v.q /\ v.d # cls.unit) => last.err # "" /\ last.ret = NoValue
            /\ (v.q /\ v.d = cls.unit /\ ~last.force) =>
                    last.err = "" /\ last.ret = v
            /\ (v.q /\ v.d = cls.unit /\ last.force) =>
                    /\ last.err = ""
                    /\ last.ret = Q_(Scale(v.m, v.k), cls.unit, 0)

\* 10 kg with force becomes 10000 g
C19_Witness ==
    /\ last.op = "ensure_units"
    /\ last.force
    /\ last.value.q /\ last.value.k = 3 /\ last.value.m = Ten
    /\ last.err = ""
    /\ last.ret.k = 0
    /\ last.ret.m = Mag(1, 4, 0)

C21_ExampleValuesValid ==
    (last.op = "example_values" /\ last.err = "") =>
        /\ ValidFor(last.cls, last.ret)
        /\ is_valid(last.cls, last.ret)
        /\ last.ret.q <=> last.force

\* a value with units for a class with a finite upper and a lower above 0
C21_Witness ==
    /\ last.op = "example_values"
    /\ last.err = ""
    /\ last.force
    /\ ~last.cls.upper.inf
    /\ last.cls.lower = One
    /\ last.ret = Q_(Ten, last.cls.unit, 0)

\* C22: an assignment to a key that is present raises, an assignment to a
\* new key stores the value, and every key keeps the value it had.
C22_RegistryNeverOverwrites ==
    [][last'.op = "setitem" =>
        /\ last'.key \in DOMAIN PARAMETER_REGISTRY <=> last'.err = KeySet
        /\ \A k \in DOMAIN PARAMETER_REGISTRY :
            /\ k \in DOMAIN PARAMETER_REGISTRY'
            /\ PARAMETER_REGISTRY'[k] = PARAMETER_REGISTRY[k]
        /\ last'.key \notin DOMAIN PARAMETER_REGISTRY =>
            /\ DOMAIN PARAMETER_REGISTRY'
                    = DOMAIN PARAMETER_REGISTRY \cup {last'.key}
            /\ PARAMETER_REGISTRY'[last'.key] = last'.value
    ]_vars

\* a second, different value for a key was refused
C22_Witness ==
    /\ last.op = "setitem"
    /\ last.err = KeySet
    /\ PARAMETER_REGISTRY[last.key] # last.value
    /\ Cardinality(DOMAIN PARAMETER_REGISTRY) > 1

\* C23: a determine_parameter call and a call of a registered formula
\* leave parameters, symbols, formulae, equations and the two indices as
\* they were, whether the call returns or raises, and the same call made
\* again has the same outcome.
C23_CallsKeepRegistry ==
    [][last'.op \in {"determine_parameter", "formula"} =>
        /\ registry' = registry
        /\ last'.op = "determine_parameter" =>
            LET again == determine_parameter(symbols', equations',
                            ClassNamed(last'.target), last'.known)
            IN  again.err = last'.err /\ again.value = last'.value
        /\ last'.op = "formula" =>
            LET again == call_formula(last'.batch[1], last'.known)
            IN  again.err = last'.err /\ again.value = last'.value
    ]_vars

\* a determine that raised on a formulary with two formulas
C23_Witness ==
    /\ Determined
    /\ last.err = NotUnique
    /\ Len(formulae) = 2
    /\ Len(equations) = 2

\* C24: a registered equation with the right variables that has no single
\* solution for the target is left out and does not stop determine: with
\* exactly one other candidate equation, determine has the outcome of that
\* equation's expression.
C24_UnsolvableEquationSkipped ==
    (/\ WellFormed
     /\ \E i \in Candidates : ~Isolable(i)
     /\ Cardinality({i \in Candidates : Isolable(i)}) = 1) =>
        \A i \in {i \in Candidates : Isolable(i)} :
            /\ last.err = ValueFrom(i).err
            /\ last.value = ValueFrom(i).value

\* the two indices list, for every name, the formulas of the formula list
\* that refer to it and those that compute it, in the order of the list
IndicesExact(fs, ffor, fcont) ==
    \A p \in Names :
        LET Contains(f) == p \in Referenced(f)
            For(f) == f.result_class = p
        IN  /\ fcont[p] = SelectSeq(fs, Contains)
            /\ ffor[p] = SelectSeq(fs, For)

C26_EquationVariablesAreResultAndInputs ==
    last.op = "Formula" =>
        /\ Atoms(last.eq) = {last.lhs} \cup Range(last.inputs)
        /\ ExprAtoms(last.rhs) = Range(last.inputs)

\* the outcome of determine_parameter of utils/formula.py for the call
NewStrategy == determine_parameter(symbols, equations, TargetClass, last.known)

C28_RaisingRegistrationKeepsMaps ==
    [][(last'.op = "register_parameters" /\ last'.err # "") =>
            (parameters' = parameters /\ symbols' = symbols)]_vars

\* the equations in the order the permutation p of their positions gives
Reordered(p) == [i \in DOMAIN equations |-> equations[p[i]]]

\* C29: the outcome of determine_parameter (the value, or the exception) is
\* the same for every order in which the registered equations could have
\* been registered; the knowns are keyword arguments, looked up by name.
C29_OutcomeIndependentOfOrder ==
    Determined =>
        \A p \in Permutations(DOMAIN equations) :
            LET r == determine_parameter(symbols, Reordered(p), TargetClass,
                                         last.known)
            IN  /\ r.err = last.err
                /\ r.value = last.value
                /\ r.ncand = last.ncand

\* a value determined from the second of two different registered equations
C29_Witness ==
    /\ Determined
    /\ last.err = ""
    /\ Len(equations) = 2
    /\ equations[1] # equations[2]
    /\ Candidates = {2}
    /\ Cardinality(DOMAIN last.known) = 2

====
